---------------------------- MODULE Spec2Model ----------------------------
(*************************************************************************)
(* A state-machine model of the Ruby tag scanner, parsers/ruby.c.        *)
(*                                                                       *)
(* A line is a sequence of one-character strings; the C string's         *)
(* terminating '\0' is the value NUL read one past the last character.   *)
(* A cursor (the C pointer cp) is a 1-based index into the line.         *)
(* A vString is a sequence of characters.  The scope stack `nesting' is  *)
(* a sequence of frames, outermost first; the cork queue `cork' is the   *)
(* sequence of tag entries made so far, entry i having cork index i and  *)
(* CORK_NIL being 0.                                                     *)
(*************************************************************************)
EXTENDS Integers, Sequences, FiniteSets, TLC

VARIABLES
    src,                 \* which family of input files is being scanned
    enabled,             \* RubyKinds[k].enabled, for k \in 0..4
    nesting,             \* the scope stack (static NestingLevels* nesting)
    cork,                \* the cork queue of the tag index
    inMultiLineComment,  \* findRubyTags' local of that name
    line,                \* the line being scanned
    cp,                  \* the cursor into line
    expect_separator,    \* findRubyTags' local of that name
    pc,                  \* position in findRubyTags
    lineNo,              \* number of lines read so far
    pushes,              \* history: frames pushed so far
    pops,                \* history: frames popped by `end' so far
    torn,                \* history: frames torn down by nestingLevelsFree
    suppressed,          \* history: the kinds emitRubyTag was called for
                         \*   while they were disabled
    openers,             \* history: the keyword that opened each frame
    hdr,                 \* history: the block keyword matched on this line
                         \*   and the tokens the sweep has met on it
    ev                   \* history: what the last step did

vars == <<src, enabled, nesting, cork, inMultiLineComment, line, cp,
          expect_separator, pc, lineNo, pushes, pops, torn, suppressed, openers,
          hdr, ev>>

-----------------------------------------------------------------------------
(* Kinds, rubyKind.                                                      *)

K_UNDEFINED == -1
K_CLASS == 0
K_METHOD == 1
K_MODULE == 2
K_SINGLETON == 3
K_CONST == 4
CORK_NIL == 0

RubyKindIndexes == K_CLASS .. K_CONST

-----------------------------------------------------------------------------
(* Characters and <ctype.h>.                                             *)

NUL == "NUL"
\* the character 0x60, which a TLA+ string cannot hold
BACKQUOTE == "BACKQUOTE"

Upper == {"A","B","C","D","E","F","G","H","I","J","K","L","M",
          "N","O","P","Q","R","S","T","U","V","W","X","Y","Z"}
Lower == {"a","b","c","d","e","f","g","h","i","j","k","l","m",
          "n","o","p","q","r","s","t","u","v","w","x","y","z"}
Digit == {"0","1","2","3","4","5","6","7","8","9"}

isalnum(c) == c \in Upper \cup Lower \cup Digit
isupper(c) == c \in Upper
isspace(c) == c \in {" ", "\t", "\n", "\f", "\r"}

\* *(s + i - base): the character under cursor i, NUL at the end of the line
At(s, i) == IF i >= 1 /\ i <= Len(s) THEN s[i] ELSE NUL

isIdentChar(c) == isalnum(c) \/ c = "_"

notIdentChar(c) == ~ isIdentChar(c)

isOperatorChar(c) ==
    c \in {"[", "]", "=", "!", "~", "+", "-", "@", "*", "/", "%",
           "<", ">", "&", "^", "|"}

notOperatorChar(c) == ~ isOperatorChar(c)

isSigilChar(c) == c \in {"@", "$"}

isWhitespace(c) == c = NUL \/ isspace(c)

\* a call through one of the bool (*)(int) pointers the matchers are given
Pred(p, c) ==
    CASE p = "isIdentChar" -> isIdentChar(c)
      [] p = "notIdentChar" -> notIdentChar(c)
      [] p = "isOperatorChar" -> isOperatorChar(c)
      [] p = "notOperatorChar" -> notOperatorChar(c)
      [] p = "isSigilChar" -> isSigilChar(c)
      [] p = "isWhitespace" -> isWhitespace(c)

-----------------------------------------------------------------------------
(* Token matchers.  Each returns the cursor it leaves behind.            *)

canMatch(s, i, literal, end_check) ==
    LET literal_length == Len(literal)
        s_length == Len(s) - i + 1
    IN  IF s_length < literal_length
          THEN [ok |-> FALSE, cp |-> i]
        ELSE IF SubSeq(s, i, i + literal_length - 1) # literal
          THEN [ok |-> FALSE, cp |-> i]
        ELSE IF ~ Pred(end_check, At(s, i + literal_length))
          THEN [ok |-> FALSE, cp |-> i]
        ELSE [ok |-> TRUE, cp |-> i + literal_length]

\* the cursor after advanceWhile; the C function's result is (that # i)
advanceWhile(s, i, predicate) ==
    CHOOSE j \in i .. (Len(s) + 1) :
        /\ j = Len(s) + 1 \/ ~ Pred(predicate, s[j])
        /\ \A k \in i .. (j - 1) : Pred(predicate, s[k])

canMatchKeyword(s, i, literal) == canMatch(s, i, literal, "notIdentChar")

\* mutant: the cursor is not put back when the keyword fails to match
\* after the assignment has been skipped
canMatchKeywordWithAssign_NoRestore(s, i, literal) ==
    LET failed == [ok |-> FALSE, cp |-> i]
        p1 == advanceWhile(s, i, "isSigilChar")
        p2 == advanceWhile(s, p1, "isIdentChar")
        p3 == advanceWhile(s, p2, "isWhitespace")
        p4 == advanceWhile(s, p3, "isOperatorChar")
        p5 == advanceWhile(s, p4, "isWhitespace")
    IN  IF canMatchKeyword(s, i, literal).ok
          THEN canMatchKeyword(s, i, literal)
        ELSE IF p2 = p1 THEN failed
        ELSE IF ~ (p4 # p3 /\ At(s, p4 - 1) = "=") THEN failed
        ELSE IF canMatchKeyword(s, p5, literal).ok
          THEN canMatchKeyword(s, p5, literal)
        ELSE [ok |-> FALSE, cp |-> p5]

canMatchKeywordWithAssign(s, i, literal) ==
    LET original_pos == i
        failed == [ok |-> FALSE, cp |-> original_pos]
        p1 == advanceWhile(s, i, "isSigilChar")
        p2 == advanceWhile(s, p1, "isIdentChar")
        p3 == advanceWhile(s, p2, "isWhitespace")
        p4 == advanceWhile(s, p3, "isOperatorChar")
        p5 == advanceWhile(s, p4, "isWhitespace")
    IN  IF canMatchKeyword(s, i, literal).ok
          THEN canMatchKeyword(s, i, literal)
        ELSE IF p2 = p1 THEN failed
        ELSE IF ~ (p4 # p3 /\ At(s, p4 - 1) = "=") THEN failed
        ELSE IF canMatchKeyword(s, p5, literal).ok
          THEN canMatchKeyword(s, p5, literal)
        ELSE failed

\* skipWhitespace: the cursor after the leading isspace characters
skipWhitespace(s, i) ==
    CHOOSE j \in i .. (Len(s) + 1) :
        /\ ~ isspace(At(s, j))
        /\ \A k \in i .. (j - 1) : isspace(s[k])

\* strchr (list, ch) != NULL; strchr finds the terminator when ch is '\0'
charIsIn(ch, list) == ch = NUL \/ \E k \in 1 .. Len(list) : list[k] = ch

-----------------------------------------------------------------------------
(* String literals of the scanner.                                       *)

SCOPE_SEPARATOR == "."

S_eq_begin == <<"=","b","e","g","i","n">>
S_eq_end == <<"=","e","n","d">>
S_for == <<"f","o","r">>
S_until == <<"u","n","t","i","l">>
S_while == <<"w","h","i","l","e">>
S_case == <<"c","a","s","e">>
S_if == <<"i","f">>
S_unless == <<"u","n","l","e","s","s">>
S_module == <<"m","o","d","u","l","e">>
S_class == <<"c","l","a","s","s">>
S_include == <<"i","n","c","l","u","d","e">>
S_prepend == <<"p","r","e","p","e","n","d">>
S_extend == <<"e","x","t","e","n","d">>
S_def == <<"d","e","f">>
S_begin == <<"b","e","g","i","n">>
S_do == <<"d","o">>
S_end == <<"e","n","d">>

RUBY_OPERATORS ==
    << <<"[","]">>, <<"[","]","=">>,
       <<"*","*">>,
       <<"!">>, <<"~">>, <<"+","@">>, <<"-","@">>,
       <<"*">>, <<"/">>, <<"%">>,
       <<"+">>, <<"-">>,
       <<">",">">>, <<"<","<">>,
       <<"&">>,
       <<"^">>, <<"|">>,
       <<"<","=">>, <<"<">>, <<">">>, <<">","=">>,
       <<"<","=",">">>, <<"=","=">>, <<"=","=","=">>, <<"!","=">>,
       <<"=","~">>, <<"!","~">>,
       <<BACKQUOTE>> >>

-----------------------------------------------------------------------------
(* The identifier and operator reader.                                   *)

\* mutant: the character after the spelling is not looked at
parseRubyOperator_NoBoundary(name, s, i) ==
    LET hits == {k \in 1 .. Len(RUBY_OPERATORS) :
                    /\ i + Len(RUBY_OPERATORS[k]) - 1 <= Len(s)
                    /\ SubSeq(s, i, i + Len(RUBY_OPERATORS[k]) - 1)
                           = RUBY_OPERATORS[k]}
    IN  IF hits = {}
          THEN [ok |-> FALSE, name |-> name, cp |-> i]
        ELSE LET k == CHOOSE h \in hits : \A g \in hits : h <= g
             IN  [ok |-> TRUE, name |-> name \o RUBY_OPERATORS[k],
                  cp |-> i + Len(RUBY_OPERATORS[k])]

\* the first spelling of the list that canMatch accepts is appended to name
parseRubyOperator(name, s, i) ==
    LET hits == {k \in 1 .. Len(RUBY_OPERATORS) :
                    canMatch(s, i, RUBY_OPERATORS[k], "notOperatorChar").ok}
    IN  IF hits = {}
          THEN [ok |-> FALSE, name |-> name, cp |-> i]
        ELSE LET k == CHOOSE h \in hits : \A g \in hits : h <= g
             IN  [ok |-> TRUE, name |-> name \o RUBY_OPERATORS[k],
                  cp |-> i + Len(RUBY_OPERATORS[k])]

also_ok(kind) ==
    IF kind = K_METHOD THEN <<".", "?", "!", "=">>
    ELSE IF kind = K_SINGLETON THEN <<"?", "!", "=">>
    ELSE <<>>

RECURSIVE parseIdentifier(_, _, _, _)
RECURSIVE copyIdentifier(_, _, _, _, _)

\* the while loop of parseIdentifier, one character per unfolding
copyIdentifier(s, i, name, kind, had_sep) ==
    LET c == At(s, i)
    IN  IF ~ (c # NUL /\ (c = ":" \/ isIdentChar(c) \/ charIsIn(c, also_ok(kind))))
          THEN [kind |-> kind, name |-> name, cp |-> i]
        ELSE
          LET last_char == c
              name1 == IF last_char = ":" THEN name
                       ELSE IF had_sep
                         THEN Append(Append(name, SCOPE_SEPARATOR), last_char)
                       ELSE Append(name, last_char)
              sep1 == last_char = ":"
          IN  IF kind = K_METHOD /\ last_char = "."
                THEN parseIdentifier(s, i + 1, <<>>, K_SINGLETON)
              ELSE IF kind \in {K_METHOD, K_SINGLETON}
                      /\ charIsIn(last_char, <<"?", "!", "=">>)
                THEN [kind |-> kind, name |-> name1, cp |-> i + 1]
              ELSE copyIdentifier(s, i + 1, name1, kind, sep1)

parseIdentifier(s, i, name, kind) ==
    LET i1 == skipWhitespace(s, i)
        op == parseRubyOperator(name, s, i1)
    IN  IF kind = K_CLASS /\ At(s, i1) = "<" /\ At(s, i1 + 1) = "<"
          THEN [kind |-> K_UNDEFINED, name |-> name, cp |-> i1]
        ELSE IF kind \in {K_METHOD, K_SINGLETON} /\ op.ok
          THEN [kind |-> kind, name |-> op.name, cp |-> op.cp]
        ELSE copyIdentifier(s, i1, name, kind, FALSE)

-----------------------------------------------------------------------------
(* The scope stack and the tag index (nestlevel.h, entry.h).             *)
(* A scanner state st is a record [nesting, cork, npush, cp, r, fault,   *)
(* raw, ekind]: the stack, the cork queue, the number of                 *)
(* nestingLevelsPush calls made so far, the cursor, the cork index the   *)
(* last emitter call returned, whether the scan has trapped, and the     *)
(* name and kind last passed to emitRubyTag.  A NestingLevel* is a       *)
(* 1-based index into the stack and a tagEntryInfo* a cork index; 0 is   *)
(* the null pointer of both.                                             *)

NoString == <<>>

initTagEntry(name, kind) ==
    [name |-> name, kindIndex |-> kind, placeholder |-> FALSE,
     scopeKindIndex |-> K_UNDEFINED, scopeName |-> NoString,
     inheritance |-> NoString, mixin |-> <<>>]

\* queues the entry; its cork index is left in st.r
makeTagEntry(st, tag) ==
    [st EXCEPT !.cork = Append(@, tag), !.r = Len(st.cork) + 1]

nestingLevelsPush(st, corkIndex) ==
    [st EXCEPT !.nesting = Append(@, [corkIndex |-> corkIndex, mixin |-> <<>>]),
               !.npush = @ + 1]

nestingLevelsGetCurrent(st) == Len(st.nesting)

\* n is the C (0-based) index
nestingLevelsGetNth(st, n) ==
    IF Len(st.nesting) > n /\ n >= 0 THEN n + 1 ELSE 0

getEntryInCorkQueue(st, n) ==
    IF n > CORK_NIL /\ n <= Len(st.cork) THEN n ELSE 0

getEntryOfNestingLevel(st, nl) ==
    IF nl = 0 THEN 0 ELSE getEntryInCorkQueue(st, st.nesting[nl].corkIndex)

attachParserFieldToCorkEntry(c, corkIndex, value) ==
    [c EXCEPT ![corkIndex].mixin = Append(@, value)]

-----------------------------------------------------------------------------
(* The scope-qualified emitter.                                          *)

RECURSIVE scopeChunks(_, _, _, _)
\* the loop of nestingLevelsToScope from frame i on
scopeChunks(st, i, chunks_output, result) ==
    IF i > Len(st.nesting) THEN result
    ELSE LET e == getEntryOfNestingLevel(st, i)
         IN  IF e # 0 /\ Len(st.cork[e].name) > 0 /\ ~ st.cork[e].placeholder
               THEN scopeChunks(st, i + 1, chunks_output + 1,
                        (IF chunks_output > 0
                           THEN Append(result, SCOPE_SEPARATOR)
                           ELSE result) \o st.cork[e].name)
             ELSE scopeChunks(st, i + 1, chunks_output, result)

\* mutant: only the innermost frame is looked at
nestingLevelsToScope_Innermost(st) ==
    scopeChunks(st, IF Len(st.nesting) > 0 THEN Len(st.nesting) ELSE 1,
                0, <<>>)

nestingLevelsToScope(st) == scopeChunks(st, 1, 0, <<>>)

\* strrchr (name, SCOPE_SEPARATOR) as an index into name, 0 for NULL
strrchrSep(name) ==
    IF \E k \in 1 .. Len(name) : name[k] = SCOPE_SEPARATOR
      THEN CHOOSE k \in 1 .. Len(name) :
               /\ name[k] = SCOPE_SEPARATOR
               /\ \A j \in (k + 1) .. Len(name) : name[j] # SCOPE_SEPARATOR
    ELSE 0

\* mutant: the enabled flag is not consulted
kindEnabled_Always(kind) == kind \in RubyKindIndexes

\* RubyKinds[kind].enabled
kindEnabled(kind) == enabled[kind]

\* the state after emitRubyTag, its result in st.r; st.raw and st.ekind
\* record the arguments of the call
emitRubyTag(st0, name, kind) ==
    IF ~ kindEnabled(kind)
      THEN [st0 EXCEPT !.r = CORK_NIL, !.raw = name, !.ekind = kind]
    ELSE
      LET st == [st0 EXCEPT !.raw = name, !.ekind = kind]
          scope0 == nestingLevelsToScope(st)
          parent == getEntryOfNestingLevel(st, nestingLevelsGetCurrent(st))
          parent_kind0 == IF parent # 0 THEN st.cork[parent].kindIndex
                          ELSE K_UNDEFINED
          u == strrchrSep(name)
          split == u # 0 /\ At(name, u + 1) # NUL
          prefixed == split /\ u > 1
          scope == IF prefixed
                     THEN (IF Len(scope0) > 0
                             THEN Append(scope0, SCOPE_SEPARATOR)
                             ELSE scope0) \o SubSeq(name, 1, u - 1)
                   ELSE scope0
          parent_kind == IF prefixed THEN K_MODULE ELSE parent_kind0
          unqualified_name == IF split THEN SubSeq(name, u + 1, Len(name))
                              ELSE name
          tag0 == initTagEntry(unqualified_name, kind)
          tag == IF Len(scope) > 0
                   THEN [tag0 EXCEPT !.scopeKindIndex = parent_kind,
                                     !.scopeName = scope]
                 ELSE tag0
          made == makeTagEntry(st, tag)
      IN  IF kind # K_CONST THEN nestingLevelsPush(made, made.r) ELSE made

\* mutant: the placeholder does not take the kind of the enclosing symbol
enterUnnamedScope_NoKind(st) ==
    LET e_parent == getEntryOfNestingLevel(st, nestingLevelsGetCurrent(st))
    IN  IF e_parent # 0
          THEN LET e == [initTagEntry(<<>>, K_UNDEFINED)
                            EXCEPT !.placeholder = TRUE]
                   made == makeTagEntry(st, e)
               IN  nestingLevelsPush(made, made.r)
        ELSE nestingLevelsPush(st, CORK_NIL)

enterUnnamedScope(st) ==
    LET e_parent == getEntryOfNestingLevel(st, nestingLevelsGetCurrent(st))
    IN  IF e_parent # 0
          THEN LET e == [initTagEntry(<<>>, st.cork[e_parent].kindIndex)
                            EXCEPT !.placeholder = TRUE]
                   made == makeTagEntry(st, e)
               IN  nestingLevelsPush(made, made.r)
        ELSE nestingLevelsPush(st, CORK_NIL)

\* mutant: an unreadable name opens no scope
readAndEmitTag_NoUnnamed(s, st, expected_kind) ==
    IF isspace(At(s, st.cp))
      THEN LET id == parseIdentifier(s, st.cp, <<>>, expected_kind)
               at == [st EXCEPT !.cp = id.cp, !.r = CORK_NIL]
           IN  IF id.kind = K_UNDEFINED \/ Len(id.name) = 0
                 THEN at
               ELSE emitRubyTag(at, id.name, id.kind)
    ELSE [st EXCEPT !.r = CORK_NIL]

\* the state after readAndEmitTag with the cursor at st.cp, its result in st.r
readAndEmitTag(s, st, expected_kind) ==
    IF isspace(At(s, st.cp))
      THEN LET id == parseIdentifier(s, st.cp, <<>>, expected_kind)
               at == [st EXCEPT !.cp = id.cp, !.r = CORK_NIL]
           IN  IF id.kind = K_UNDEFINED \/ Len(id.name) = 0
                 THEN [enterUnnamedScope(at) EXCEPT !.r = CORK_NIL]
               ELSE emitRubyTag(at, id.name, id.kind)
    ELSE [st EXCEPT !.r = CORK_NIL]

-----------------------------------------------------------------------------
(* Mixin specs.                                                          *)

\* What reading e->kindIndex through a null e can do: trap, or yield any
\* value.  TRAP stands for the trap; the other outcomes are the kind read.
TRAP == -2
NullRead == {TRAP} \cup (K_UNDEFINED .. K_CONST)

\* u1 and u2 are the outcomes of the null reads, used only where one happens
readAndStoreMixinSpec(s, st, how_mixin, u1, u2) ==
    LET nl0 == nestingLevelsGetCurrent(st)
        e0 == getEntryOfNestingLevel(st, nl0)
        k0 == IF e0 # 0 THEN st.cork[e0].kindIndex ELSE u1
        nl1 == IF k0 = K_SINGLETON
                 THEN nestingLevelsGetNth(st, Len(st.nesting) - 2)
               ELSE nl0
        e1 == IF k0 = K_SINGLETON THEN getEntryOfNestingLevel(st, nl1) ELSE e0
        k1 == IF k0 # K_SINGLETON THEN k0
              ELSE IF e1 # 0 THEN st.cork[e1].kindIndex ELSE u2
        spec0 == how_mixin \o <<":">>
        id == parseIdentifier(s, st.cp, spec0, K_MODULE)
    IN  IF k0 = TRAP THEN [st EXCEPT !.fault = TRUE]
        ELSE IF k0 = K_SINGLETON /\ nl1 = 0 THEN st
        ELSE IF k1 = TRAP THEN [st EXCEPT !.fault = TRUE]
        ELSE IF ~ (k1 = K_CLASS \/ k1 = K_MODULE) THEN st
        ELSE IF ~ isspace(At(s, st.cp)) THEN st
        ELSE IF Len(id.name) = Len(spec0) THEN [st EXCEPT !.cp = id.cp]
        ELSE IF nl1 = 0
          \* bdata->mixin read through a null nl: trap, or nothing kept
          THEN [st EXCEPT !.cp = id.cp, !.fault = (u2 = TRAP)]
        ELSE [st EXCEPT !.cp = id.cp,
                        !.nesting[nl1].mixin = Append(@, id.name)]

\* the states readAndStoreMixinSpec can leave behind: one, unless a null
\* pointer is read through
mixinOutcomes(s, st, how_mixin) ==
    LET e0 == getEntryOfNestingLevel(st, nestingLevelsGetCurrent(st))
    IN  IF e0 # 0
             /\ (st.cork[e0].kindIndex # K_SINGLETON
                 \/ Len(st.nesting) < 2
                 \/ getEntryOfNestingLevel(st, Len(st.nesting) - 1) # 0)
          THEN {readAndStoreMixinSpec(s, st, how_mixin, K_UNDEFINED, K_UNDEFINED)}
        ELSE {readAndStoreMixinSpec(s, st, how_mixin, u1, u2) :
                 u1 \in NullRead, u2 \in NullRead}

RECURSIVE joinMixin(_, _, _)
\* the loop of attachMixinField from i (C index) on
joinMixin(mixinSpec, i, mixinField) ==
    IF ~ (i < Len(mixinSpec)) THEN mixinField
    ELSE joinMixin(mixinSpec, i + 1, Append(mixinField, ",") \o mixinSpec[1 + 1])

attachMixinField(c, corkIndex, mixinSpec) ==
    attachParserFieldToCorkEntry(c, corkIndex,
                                 joinMixin(mixinSpec, 1, mixinSpec[0 + 1]))

\* the cork queue after deleteBlockData on frame nl
deleteBlockData(c, nl) ==
    IF nl.corkIndex # CORK_NIL /\ Len(nl.mixin) > 0
      THEN attachMixinField(c, nl.corkIndex, nl.mixin)
    ELSE c

nestingLevelsPop(st) ==
    [st EXCEPT !.cork = deleteBlockData(@, st.nesting[Len(st.nesting)]),
               !.nesting = SubSeq(@, 1, Len(@) - 1)]

RECURSIVE freeLevels(_, _, _)
\* nestingLevelsFree: deleteBlockData on every level, outermost first
freeLevels(c, levels, i) ==
    IF i > Len(levels) THEN c
    ELSE freeLevels(deleteBlockData(c, levels[i]), levels, i + 1)

nestingLevelsFree(st) ==
    [st EXCEPT !.cork = freeLevels(@, st.nesting, 1), !.nesting = <<>>]

-----------------------------------------------------------------------------
(* Constants.                                                            *)

\* p aliases cp, so the cursor moves whether or not a constant is found
doesLineIncludeConstant(s, i) ==
    LET i1 == IF isspace(At(s, i)) THEN skipWhitespace(s, i) ELSE i
        i2 == advanceWhile(s, i1, "isIdentChar")
        i3 == IF isspace(At(s, i2)) THEN skipWhitespace(s, i2) ELSE i2
    IN  IF ~ isupper(At(s, i1))
          THEN [ok |-> FALSE, cp |-> i1, constant |-> <<>>]
        ELSE IF At(s, i3) = "="
          THEN [ok |-> TRUE, cp |-> i3, constant |-> SubSeq(s, i1, i2 - 1)]
        ELSE [ok |-> FALSE, cp |-> i3, constant |-> <<>>]

-----------------------------------------------------------------------------
(* The leading-keyword dispatch of findRubyTags.                         *)

\* the first of the keywords (in order) that canMatchKeywordWithAssign
\* accepts at cursor i, and the cursor after it; "none" leaves the cursor
RECURSIVE firstKeyword(_, _, _, _)
firstKeyword(s, i, keywords, k) ==
    IF k > Len(keywords) THEN [kw |-> "none", cp |-> i]
    ELSE LET m == canMatchKeywordWithAssign(s, i, keywords[k].lit)
         IN  IF m.ok THEN [kw |-> keywords[k].kw, cp |-> m.cp]
             ELSE firstKeyword(s, i, keywords, k + 1)

BlockKeywords ==
    << [kw |-> "for", lit |-> S_for], [kw |-> "until", lit |-> S_until],
       [kw |-> "while", lit |-> S_while], [kw |-> "case", lit |-> S_case],
       [kw |-> "if", lit |-> S_if], [kw |-> "unless", lit |-> S_unless] >>

TagKeywords ==
    << [kw |-> "module", lit |-> S_module], [kw |-> "class", lit |-> S_class],
       [kw |-> "include", lit |-> S_include],
       [kw |-> "prepend", lit |-> S_prepend],
       [kw |-> "extend", lit |-> S_extend], [kw |-> "def", lit |-> S_def] >>

\* mutant: the parent is attached to the symbol queued before the class
classHeader_AttachPrevious(s, st) ==
    LET t == readAndEmitTag(s, st, K_CLASS)
        i1 == skipWhitespace(s, t.cp)
        parent == parseIdentifier(s, i1 + 1, <<>>, K_CLASS)
    IN  IF t.r = CORK_NIL THEN t
        ELSE IF ~ (At(s, i1) = "<" /\ At(s, i1 + 1) # "<")
          THEN [t EXCEPT !.cp = i1]
        ELSE IF Len(parent.name) > 0
          THEN [t EXCEPT !.cp = parent.cp,
                         !.cork[IF t.r > 1 THEN t.r - 1 ELSE t.r].inheritance =
                             parent.name]
        ELSE [t EXCEPT !.cp = parent.cp]

\* lines 643-661: the class header and its inheritance parent
classHeader(s, st) ==
    LET t == readAndEmitTag(s, st, K_CLASS)
        i1 == skipWhitespace(s, t.cp)
        parent == parseIdentifier(s, i1 + 1, <<>>, K_CLASS)
    IN  IF t.r = CORK_NIL THEN t
        ELSE IF ~ (At(s, i1) = "<" /\ At(s, i1 + 1) # "<")
          THEN [t EXCEPT !.cp = i1]
        ELSE IF Len(parent.name) > 0
          THEN [t EXCEPT !.cp = parent.cp,
                         !.cork[getEntryInCorkQueue(t, t.r)].inheritance =
                             parent.name]
        ELSE [t EXCEPT !.cp = parent.cp]

\* mutant: the enclosing scope is not looked at
defKind_AlwaysMethod(st) == K_METHOD

\* lines 677-694: the kind a def is read with
defKind(st) ==
    LET e == getEntryOfNestingLevel(st, nestingLevelsGetCurrent(st))
    IN  IF e # 0 /\ st.cork[e].kindIndex = K_CLASS /\ Len(st.cork[e].name) = 0
          THEN K_SINGLETON
        ELSE K_METHOD

\* lines 696-700
constantLine(s, st) ==
    LET c == doesLineIncludeConstant(s, st.cp)
        at == [st EXCEPT !.cp = c.cp, !.r = CORK_NIL]
    IN  IF c.ok THEN emitRubyTag(at, c.constant, K_CONST) ELSE at

-----------------------------------------------------------------------------
(* The trailing sweep of findRubyTags: one iteration of the while loop.  *)

\* the cursor after a string literal that opens at i
skipString(s, i) ==
    LET j == CHOOSE j \in (i + 1) .. (Len(s) + 1) :
                 /\ At(s, j) = NUL \/ At(s, j) = "\""
                 /\ \A k \in (i + 1) .. (j - 1) : s[k] # "\""
    IN  IF At(s, j) = "\"" THEN j + 1 ELSE j

\* mutant: a while loop in place of the do-while
skipOther_WhileLoop(s, i) == advanceWhile(s, i, "isIdentChar")

\* the cursor after the do-while of lines 756-758
skipOther(s, i) ==
    CHOOSE j \in (i + 1) .. (Len(s) + 1) :
        /\ ~ isIdentChar(At(s, j))
        /\ \A k \in (i + 1) .. (j - 1) : isIdentChar(s[k])

\* the branches after the `end' test, with the cursor at i
sweepTail(s, i) ==
    IF At(s, i) = "\"" THEN [kw |-> "string", cp |-> skipString(s, i)]
    ELSE IF At(s, i) = ";" THEN [kw |-> "semi", cp |-> i + 1]
    ELSE IF At(s, i) # NUL THEN [kw |-> "other", cp |-> skipOther(s, i)]
    ELSE [kw |-> "nothing", cp |-> i]

\* which branch the iteration at cursor i takes, and the cursor it leaves;
\* n is nesting->n.  An `end' that matches on an empty stack has moved the
\* cursor before the later branches are tried.
sweepBranch(s, i, n, inComment) ==
    IF inComment \/ isspace(At(s, i)) THEN [kw |-> "space", cp |-> i + 1]
    ELSE IF At(s, i) = "#" THEN [kw |-> "hash", cp |-> i]
    ELSE IF canMatchKeyword(s, i, S_begin).ok
      THEN [kw |-> "begin", cp |-> canMatchKeyword(s, i, S_begin).cp]
    ELSE IF canMatchKeyword(s, i, S_do).ok
      THEN [kw |-> "do", cp |-> canMatchKeyword(s, i, S_do).cp]
    ELSE IF canMatchKeyword(s, i, S_end).ok
      THEN IF n > 0
             THEN [kw |-> "end", cp |-> canMatchKeyword(s, i, S_end).cp]
           ELSE [kw |-> "end0", tail |->
                    sweepTail(s, canMatchKeyword(s, i, S_end).cp).kw,
                 cp |-> sweepTail(s, canMatchKeyword(s, i, S_end).cp).cp]
    ELSE sweepTail(s, i)

-----------------------------------------------------------------------------
(* Input.  The line supply yields any of the lines of the family src,    *)
(* at most MaxLines(src) of them; a line carries no newline.             *)

\* module M
L_module_M == <<"m","o","d","u","l","e"," ","M">>

\* class C
L_class_C == <<"c","l","a","s","s"," ","C">>

\* class Foo::Bar
L_class_Foo_Bar ==
    <<"c","l","a","s","s"," ","F","o","o",":",":","B","a","r">>

\* class << self
L_class_self == <<"c","l","a","s","s"," ","<","<"," ","s","e","l","f">>

\*   def bar
L_def_bar == <<" "," ","d","e","f"," ","b","a","r">>

\* def self.make
L_def_self_make ==
    <<"d","e","f"," ","s","e","l","f",".","m","a","k","e">>

\* if x
L_if_x == <<"i","f"," ","x">>

\* end
L_end == <<"e","n","d">>

\* VALUE = 1
L_VALUE == <<"V","A","L","U","E"," ","="," ","1">>

\* class
L_class == <<"c","l","a","s","s">>

\* def
L_def == <<"d","e","f">>

\* class(x)
L_class_paren == <<"c","l","a","s","s","(","x",")">>

\* def #{n}
L_def_interp == <<"d","e","f"," ","#","{","n","}">>

\* module 
L_module_sp == <<"m","o","d","u","l","e"," ">>

\* def m
L_def_m == <<"d","e","f"," ","m">>

\* def []=(k)
L_def_index_assign == <<"d","e","f"," ","[","]","=","(","k",")">>

\* def Klass.make?
L_def_Klass_make ==
    <<"d","e","f"," ","K","l","a","s","s",".","m","a","k","e","?">>

\*   include Foo
L_include_Foo == <<" "," ","i","n","c","l","u","d","e"," ","F","o","o">>

\* prepend Bar
L_prepend_Bar == <<"p","r","e","p","e","n","d"," ","B","a","r">>

\* extend Baz
L_extend_Baz == <<"e","x","t","e","n","d"," ","B","a","z">>

\* while x do
L_while_do == <<"w","h","i","l","e"," ","x"," ","d","o">>

\* while x
L_while == <<"w","h","i","l","e"," ","x">>

\* do
L_do == <<"d","o">>

\* x.each do |y|
L_each_do == <<"x",".","e","a","c","h"," ","d","o"," ","|","y","|">>

\* until x do y do
L_while_do_do ==
    <<"u","n","t","i","l"," ","x"," ","d","o"," ","y"," ","d","o">>

\* for x in y; do
L_while_semi_do ==
    <<"f","o","r"," ","x"," ","i","n"," ","y",";"," ","d","o">>

\* end do
L_end_do == <<"e","n","d"," ","d","o">>

\* begin
L_begin == <<"b","e","g","i","n">>

\* puts "a do" # do
L_string ==
    <<"p","u","t","s"," ","\"","a"," ","d","o","\""," ","#"," ","d","o">>

\* x = if y
L_assign_if == <<"x"," ","="," ","i","f"," ","y">>

\* class C < Base
L_class_C_Base ==
    <<"c","l","a","s","s"," ","C"," ","<"," ","B","a","s","e">>

\* class C<Base
L_class_C_lt_Base_tight ==
    <<"c","l","a","s","s"," ","C","<","B","a","s","e">>

\* class C <
L_class_C_lt == <<"c","l","a","s","s"," ","C"," ","<">>

\* class C < (x)
L_class_C_lt_paren ==
    <<"c","l","a","s","s"," ","C"," ","<"," ","(","x",")">>

\* class C << X
L_class_C_shift_X == <<"c","l","a","s","s"," ","C"," ","<","<"," ","X">>

\* class D < A::B
L_class_D_A_B ==
    <<"c","l","a","s","s"," ","D"," ","<"," ","A",":",":","B">>

\* class D < ::Base
L_class_D_lead_Base ==
    <<"c","l","a","s","s"," ","D"," ","<"," ",":",":","B","a","s","e">>

\* class  < Base
L_class_lt_Base ==
    <<"c","l","a","s","s"," "," ","<"," ","B","a","s","e">>

\* class Foo::Bar < Base
L_class_Foo_Bar_Base ==
    <<"c","l","a","s","s"," ","F","o","o",":",":","B","a","r"," ","<"," ","B","a","s","e">>

\* if X = y
L_if_X_assign == <<"i","f"," ","X"," ","="," ","y">>

\* while FOO == 1
L_while_FOO_eq ==
    <<"w","h","i","l","e"," ","F","O","O"," ","=","="," ","1">>

\* case X
L_case_X == <<"c","a","s","e"," ","X">>

\* unless Foo.bar
L_unless_Foo_bar ==
    <<"u","n","l","e","s","s"," ","F","o","o",".","b","a","r">>

\* =end
L_eq_end == <<"=","e","n","d">>

\* =begin note
L_eq_begin_note == <<"=","b","e","g","i","n"," ","n","o","t","e">>

\*  =begin
L_sp_eq_begin == <<" ","=","b","e","g","i","n">>

\* =endx
L_eq_end_x == <<"=","e","n","d","x">>

\* end;
L_end_semi == <<"e","n","d",";">>

\* x "abc
L_open_string == <<"x"," ","\"","a","b","c">>

\* end end
L_end_end == <<"e","n","d"," ","e","n","d">>

\* a;b
L_a_semi_b == <<"a",";","b">>

\* end"x
L_end_quote == <<"e","n","d","\"","x">>

\* x # y
L_x_hash == <<"x"," ","#"," ","y">>

\* class A::B::C
L_class_A_B_C == <<"c","l","a","s","s"," ","A",":",":","B",":",":","C">>

\* class ::A
L_class_lead_A == <<"c","l","a","s","s"," ",":",":","A">>

\* class A::
L_class_A_trail == <<"c","l","a","s","s"," ","A",":",":">>

\* class ::A::B
L_class_lead_A_B == <<"c","l","a","s","s"," ",":",":","A",":",":","B">>

\* def K::m
L_def_K_m == <<"d","e","f"," ","K",":",":","m">>

\* module A:B
L_module_A_colon_B == <<"m","o","d","u","l","e"," ","A",":","B">>

\* ifx
L_ifx == <<"i","f","x">>

\* x = if y
L_x_assign_if == <<"x"," ","="," ","i","f"," ","y">>

\* @x = if y
L_sigil_assign_if == <<"@","x"," ","="," ","i","f"," ","y">>

\* x if y
L_x_if == <<"x"," ","i","f"," ","y">>

\* x = ifx
L_x_eq_ifx == <<"x"," ","="," ","i","f","x">>

\* x =~ if y
L_x_match_if == <<"x"," ","=","~"," ","i","f"," ","y">>

\* x  +=  while z
L_x_opassign_while ==
    <<"x"," "," ","+","="," "," ","w","h","i","l","e"," ","z">>

\* @ = if
L_sigil_only == <<"@"," ","="," ","i","f">>

\* x =
L_x_assign == <<"x"," ","=">>

\* =begin
L_eq_begin == <<"=","b","e","g","i","n">>

\* =beginx
L_eq_begin_x == <<"=","b","e","g","i","n","x">>

\* if
L_if == <<"i","f">>


\* the lines the matchers are tried on, at every cursor position
MatchLines ==
    {L_if_x, L_ifx, L_x_assign_if, L_sigil_assign_if, L_x_if,
     L_x_eq_ifx, L_x_match_if, L_x_opassign_while, L_sigil_only,
     L_x_assign, L_eq_begin, L_eq_begin_x, L_if}

Families == {"scope", "header", "mixin", "sweep", "kinds", "inherit", "dispatch", "comment", "tail", "qualified"}

Lines(f) ==
    CASE f = "scope" ->
           {L_module_M, L_class_C, L_class_Foo_Bar, L_class_self,
           L_def_bar, L_def_self_make, L_if_x, L_end, L_VALUE}
      [] f = "header" ->
           {L_class, L_def, L_class_paren, L_def_interp, L_module_sp,
           L_class_self, L_def_m, L_class_C, L_module_M, L_end,
           L_def_index_assign, L_def_Klass_make, L_def_self_make}
      [] f = "mixin" ->
           {L_class_C, L_include_Foo, L_prepend_Bar, L_extend_Baz,
           L_end, L_if_x, L_def_self_make}
      [] f = "sweep" ->
           {L_while_do, L_while, L_do, L_each_do, L_while_do_do,
           L_while_semi_do, L_end, L_end_do, L_begin, L_string,
           L_assign_if, L_class_C}
      [] f = "kinds" ->
           {L_class_C_Base, L_include_Foo, L_VALUE, L_def_m,
           L_def_self_make, L_module_M, L_end}
      [] f = "inherit" ->
           {L_class_C_Base, L_class_C_lt_Base_tight, L_class_self,
           L_class_C_lt, L_class_C_lt_paren, L_class_C_shift_X,
           L_class_D_A_B, L_class_D_lead_Base, L_class_lt_Base,
           L_class_Foo_Bar_Base, L_module_M, L_class_C, L_end}
      [] f = "dispatch" ->
           {L_if_X_assign, L_while_FOO_eq, L_if_x, L_while, L_VALUE,
           L_x_assign_if, L_case_X, L_unless_Foo_bar, L_class_C,
           L_include_Foo, L_end}
      [] f = "comment" ->
           {L_eq_begin, L_eq_end, L_eq_begin_note, L_eq_begin_x,
           L_sp_eq_begin, L_eq_end_x, L_class_C, L_def_m,
           L_include_Foo, L_begin, L_end, L_VALUE}
      [] f = "tail" ->
           {L_end, L_end_semi, L_open_string, L_string, L_begin, L_do,
           L_each_do, L_if_x, L_end_end, L_while_do, L_a_semi_b,
           L_end_quote, L_x_hash}
      [] f = "qualified" ->
           {L_module_M, L_class_C, L_class_Foo_Bar, L_class_A_B_C,
           L_class_lead_A, L_class_A_trail, L_class_lead_A_B,
           L_def_K_m, L_module_A_colon_B, L_if_x, L_end}

MaxLinesScope == 4
MaxLinesHeader == 3
MaxLinesMixin == 5
MaxLinesSweep == 4
MaxLinesKinds == 3
MaxLinesInherit == 3
MaxLinesDispatch == 3
MaxLinesComment == 4
MaxLinesTail == 3
MaxLinesQualified == 3

MaxLines(f) ==
    CASE f = "scope" -> MaxLinesScope
      [] f = "header" -> MaxLinesHeader
      [] f = "mixin" -> MaxLinesMixin
      [] f = "sweep" -> MaxLinesSweep
      [] f = "kinds" -> MaxLinesKinds
      [] f = "inherit" -> MaxLinesInherit
      [] f = "dispatch" -> MaxLinesDispatch
      [] f = "comment" -> MaxLinesComment
      [] f = "tail" -> MaxLinesTail
      [] f = "qualified" -> MaxLinesQualified

AllEnabled == [k \in RubyKindIndexes |-> TRUE]

\* RubyKinds[k].enabled: all kinds, or all but one
Configurations(f) ==
    IF f = "kinds"
      THEN {AllEnabled} \cup
           {[AllEnabled EXCEPT ![k] = FALSE] : k \in RubyKindIndexes}
    ELSE {AllEnabled}

-----------------------------------------------------------------------------
(* The state machine.                                                    *)

NoLine == <<>>

\* history of a line on which nothing has been matched yet
NoHeader == [header |-> "none", swept |-> <<>>]

\* the record of a step: what it was and the state it started from
Event(op, kw) ==
    [op |-> op, kw |-> kw, line |-> line, cpBefore |-> cp, kwEnd |-> cp,
     stackBefore |-> nesting, corkBefore |-> cork, openersBefore |-> openers,
     armed |-> expect_separator, hdr |-> hdr,
     comment |-> inMultiLineComment,
     r |-> CORK_NIL, kind |-> K_UNDEFINED, ekind |-> K_UNDEFINED,
     raw |-> NoString]

State == [nesting |-> nesting, cork |-> cork, npush |-> pushes, cp |-> cp,
          r |-> CORK_NIL, fault |-> FALSE, raw |-> NoString,
          ekind |-> K_UNDEFINED]

\* openers after a step that took the stack from `before' to `after'
Opened(before, after, by) ==
    IF Len(after) > Len(before) THEN Append(openers, by)
    ELSE IF Len(after) < Len(before) THEN SubSeq(openers, 1, Len(after))
    ELSE openers

Init ==
    /\ src \in Families
    /\ enabled \in Configurations(src)
    /\ nesting = <<>>
    /\ cork = <<>>
    /\ inMultiLineComment = FALSE
    /\ line = NoLine
    /\ cp = 1
    /\ expect_separator = FALSE
    /\ pc = "read"
    /\ lineNo = 0
    /\ pushes = 0
    /\ pops = 0
    /\ torn = 0
    /\ suppressed = {}
    /\ openers = <<>>
    /\ hdr = NoHeader
    /\ ev = [op |-> "init", kw |-> "none", line |-> NoLine, cpBefore |-> 1,
             kwEnd |-> 1, stackBefore |-> <<>>, corkBefore |-> <<>>,
             openersBefore |-> <<>>, armed |-> FALSE, hdr |-> NoHeader,
             comment |-> FALSE,
             r |-> CORK_NIL, kind |-> K_UNDEFINED, ekind |-> K_UNDEFINED,
             raw |-> NoString]

\* mutant: `=end' is not looked for
ReadLine_NoEndFence ==
    /\ pc = "read"
    /\ lineNo < MaxLines(src)
    /\ \E l \in Lines(src) :
       \E skipped \in {canMatch(l, 1, S_eq_begin, "isWhitespace").ok
                       \/ inMultiLineComment} :
           /\ inMultiLineComment' =
                IF canMatch(l, 1, S_eq_begin, "isWhitespace").ok THEN TRUE
                ELSE inMultiLineComment
           /\ line' = IF skipped THEN NoLine ELSE l
           /\ cp' = IF skipped THEN 1 ELSE skipWhitespace(l, 1)
           /\ pc' = IF skipped THEN "read" ELSE "block"
           /\ ev' = [Event("line", IF skipped THEN "skipped" ELSE "scanned")
                        EXCEPT !.line = l]
    /\ lineNo' = lineNo + 1
    /\ expect_separator' = FALSE
    /\ hdr' = NoHeader
    /\ UNCHANGED <<src, enabled, nesting, cork, pushes, pops, torn, suppressed,
                   openers>>

\* lines 587-607: the next line, the comment fences, the leading whitespace
ReadLine ==
    /\ pc = "read"
    /\ lineNo < MaxLines(src)
    /\ \E l \in Lines(src) :
       \E skipped \in {canMatch(l, 1, S_eq_begin, "isWhitespace").ok
                       \/ canMatch(l, 1, S_eq_end, "isWhitespace").ok
                       \/ inMultiLineComment} :
           /\ inMultiLineComment' =
                IF canMatch(l, 1, S_eq_begin, "isWhitespace").ok THEN TRUE
                ELSE IF canMatch(l, 1, S_eq_end, "isWhitespace").ok THEN FALSE
                ELSE inMultiLineComment
           /\ line' = IF skipped THEN NoLine ELSE l
           /\ cp' = IF skipped THEN 1 ELSE skipWhitespace(l, 1)
           /\ pc' = IF skipped THEN "read" ELSE "block"
           /\ ev' = [Event("line", IF skipped THEN "skipped" ELSE "scanned")
                        EXCEPT !.line = l]
    /\ lineNo' = lineNo + 1
    /\ expect_separator' = FALSE
    /\ hdr' = NoHeader
    /\ UNCHANGED <<src, enabled, nesting, cork, pushes, pops, torn, suppressed,
                   openers>>

\* lines 619-631: the block-opening keywords
BlockKeyword ==
    /\ pc = "block"
    /\ \E m \in {firstKeyword(line, cp, BlockKeywords, 1)} :
       \E st \in {IF m.kw = "none" THEN State ELSE enterUnnamedScope(State)} :
           /\ cp' = m.cp
           /\ expect_separator' = (m.kw \in {"for", "until", "while"})
           /\ nesting' = st.nesting
           /\ cork' = st.cork
           /\ pushes' = st.npush
           /\ openers' = Opened(nesting, st.nesting, m.kw)
           /\ hdr' = [header |-> m.kw, swept |-> <<>>]
           /\ ev' = [Event("block", m.kw) EXCEPT !.kwEnd = m.cp]
    /\ pc' = "keyword"
    /\ UNCHANGED <<src, enabled, inMultiLineComment, line, lineNo, pops, torn,
                   suppressed>>

\* the states lines 637-700 can leave behind, m being the keyword matched
tagDispatch(s, at, m) ==
    CASE m.kw = "module" -> {readAndEmitTag(s, at, K_MODULE)}
      [] m.kw = "class" -> {classHeader(s, at)}
      [] m.kw = "include" -> mixinOutcomes(s, at, S_include)
      [] m.kw = "prepend" -> mixinOutcomes(s, at, S_prepend)
      [] m.kw = "extend" -> mixinOutcomes(s, at, S_extend)
      [] m.kw = "def" -> {readAndEmitTag(s, at, defKind(at))}
      [] OTHER -> {constantLine(s, at)}

\* lines 637-700: module, class, include/prepend/extend, def, constant
TagKeyword ==
    /\ pc = "keyword"
    /\ \E m \in {firstKeyword(line, cp, TagKeywords, 1)} :
       \E st \in tagDispatch(line, [State EXCEPT !.cp = m.cp], m) :
           /\ cp' = st.cp
           /\ nesting' = st.nesting
           /\ cork' = st.cork
           /\ pushes' = st.npush
           /\ pc' = IF st.fault THEN "fault" ELSE "sweep"
           /\ suppressed' = IF st.ekind # K_UNDEFINED /\ ~ enabled[st.ekind]
                              THEN suppressed \cup {st.ekind}
                            ELSE suppressed
           /\ openers' = Opened(nesting, st.nesting,
                                 IF st.ekind = K_UNDEFINED /\ m.kw = "class"
                                   THEN "class <<" ELSE m.kw)
           /\ ev' = [Event("keyword",
                           IF m.kw = "none"
                              /\ doesLineIncludeConstant(line, cp).ok
                             THEN "constant" ELSE m.kw)
                        EXCEPT !.kwEnd = m.cp, !.r = st.r, !.raw = st.raw,
                               !.ekind = st.ekind,
                               !.kind = IF m.kw = "def" THEN defKind(State)
                                        ELSE K_UNDEFINED]
    /\ UNCHANGED <<src, enabled, inMultiLineComment, line, expect_separator,
                   lineNo, pops, torn, hdr>>

\* mutant: `end' is recognized but the frame is left on the stack
sweepEffect_NoPop(st, b, armed) ==
    IF b.kw = "begin" THEN enterUnnamedScope(st)
    ELSE IF b.kw = "do" /\ ~ armed THEN enterUnnamedScope(st)
    ELSE st

\* the state after the iteration of the sweep that takes branch b
sweepEffect(st, b, armed) ==
    IF b.kw = "begin" THEN enterUnnamedScope(st)
    ELSE IF b.kw = "do" /\ ~ armed THEN enterUnnamedScope(st)
    ELSE IF b.kw = "end" THEN nestingLevelsPop(st)
    ELSE st

\* mutant: `;' leaves the flag armed
sweepSeparator_SemiKeeps(b, armed) ==
    IF b.kw = "do" THEN FALSE
    ELSE armed

\* expect_separator after the iteration of the sweep that takes branch b
sweepSeparator(b, armed) ==
    IF b.kw = "do" THEN FALSE
    ELSE IF b.kw = "semi" THEN FALSE
    ELSE IF b.kw = "end0" /\ b.tail = "semi" THEN FALSE
    ELSE armed

\* lines 702-760: one iteration of the sweep, or its exit at the end of line
SweepStep ==
    /\ pc = "sweep"
    /\ \E b \in {sweepBranch(line, cp, Len(nesting), inMultiLineComment)} :
       \E exit \in {At(line, cp) = NUL \/ b.kw = "hash"} :
       \E st \in {IF exit THEN State
                  ELSE sweepEffect(State, b, expect_separator)} :
           /\ pc' = IF exit THEN "read" ELSE "sweep"
           /\ line' = IF exit THEN NoLine ELSE line
           /\ cp' = IF exit THEN 1 ELSE b.cp
           /\ expect_separator' =
                IF exit THEN FALSE ELSE sweepSeparator(b, expect_separator)
           /\ nesting' = st.nesting
           /\ cork' = st.cork
           /\ pushes' = st.npush
           /\ pops' = IF ~ exit /\ b.kw = "end" THEN pops + 1 ELSE pops
           /\ openers' = Opened(nesting, st.nesting, b.kw)
           /\ hdr' = IF exit THEN NoHeader
                     ELSE [hdr EXCEPT !.swept =
                              IF b.kw = "end0" THEN @ \o <<b.kw, b.tail>>
                              ELSE Append(@, b.kw)]
           /\ ev' = [Event("sweep", IF At(line, cp) = NUL THEN "eol" ELSE b.kw)
                        EXCEPT !.kwEnd = b.cp]
    /\ UNCHANGED <<src, enabled, inMultiLineComment, lineNo, torn, suppressed>>

\* lines 762-763: the line supply is exhausted
EndOfInput ==
    /\ pc = "read"
    /\ \E st \in {nestingLevelsFree(State)} :
           /\ nesting' = st.nesting
           /\ cork' = st.cork
    /\ torn' = Len(nesting)
    /\ pc' = "done"
    /\ openers' = <<>>
    /\ ev' = Event("eof", "none")
    /\ UNCHANGED <<src, enabled, inMultiLineComment, line, cp,
                   expect_separator, lineNo, pushes, pops, suppressed, hdr>>

Next == ReadLine \/ BlockKeyword \/ TagKeyword \/ SweepStep \/ EndOfInput

Spec == Init /\ [][Next]_vars

\* the scan of the files of one family
InitScope == Init /\ src = "scope"
SpecScope == InitScope /\ [][Next]_vars
InitHeader == Init /\ src = "header"
SpecHeader == InitHeader /\ [][Next]_vars
InitMixin == Init /\ src = "mixin"
SpecMixin == InitMixin /\ [][Next]_vars
InitSweep == Init /\ src = "sweep"
SpecSweep == InitSweep /\ [][Next]_vars
InitKinds == Init /\ src = "kinds"
SpecKinds == InitKinds /\ [][Next]_vars
InitQualified == Init /\ src = "qualified"
SpecQualified == InitQualified /\ [][Next]_vars
InitInherit == Init /\ src = "inherit"
SpecInherit == InitInherit /\ [][Next]_vars
InitDispatch == Init /\ src = "dispatch"
SpecDispatch == InitDispatch /\ [][Next]_vars
InitComment == Init /\ src = "comment"
SpecComment == InitComment /\ [][Next]_vars
InitTail == Init /\ src = "tail"
SpecTail == InitTail /\ [][Next]_vars

\* the scanner runs on: nothing but the line supply can hold it up, and it
\* ends the input after finitely many lines
SpecTailFair == SpecTail /\ WF_vars(Next)

\* the scan of the files of the families that name and nest scopes
InitNesting == Init /\ src \in {"scope", "header", "kinds", "qualified"}
SpecNesting == InitNesting /\ [][Next]_vars

-----------------------------------------------------------------------------
(* The matchers on their own: one call of canMatch or of                 *)
(* canMatchKeywordWithAssign on a line of MatchLines, the cursor         *)
(* anywhere on it.                                                       *)

\* the literals and boundary predicates the scanner calls canMatch with
MatchLiterals == {S_if, S_while, S_eq_begin}
EndChecks == {"isWhitespace", "notIdentChar", "notOperatorChar"}

\* the record of a call: its arguments and its result
MatchEvent(op, literal, end_check, m) ==
    [op |-> op, literal |-> literal, end_check |-> end_check,
     cpBefore |-> cp, ok |-> m.ok]

InitMatch ==
    /\ src = "match"
    /\ enabled = AllEnabled
    /\ nesting = <<>>
    /\ cork = <<>>
    /\ inMultiLineComment = FALSE
    /\ line \in MatchLines
    /\ cp \in 1 .. (Len(line) + 1)
    /\ expect_separator = FALSE
    /\ pc = "call"
    /\ lineNo = 1
    /\ pushes = 0
    /\ pops = 0
    /\ torn = 0
    /\ suppressed = {}
    /\ openers = <<>>
    /\ hdr = NoHeader
    /\ ev = [op |-> "init"]

CanMatchCall ==
    /\ pc = "call"
    /\ \E literal \in MatchLiterals, end_check \in EndChecks :
       \E m \in {canMatch(line, cp, literal, end_check)} :
           /\ cp' = m.cp
           /\ ev' = MatchEvent("canMatch", literal, end_check, m)
    /\ pc' = "returned"
    /\ UNCHANGED <<src, enabled, nesting, cork, inMultiLineComment, line,
                   expect_separator, lineNo, pushes, pops, torn, suppressed,
                   openers, hdr>>

CanMatchKeywordWithAssignCall ==
    /\ pc = "call"
    /\ \E literal \in MatchLiterals :
       \E m \in {canMatchKeywordWithAssign(line, cp, literal)} :
           /\ cp' = m.cp
           /\ ev' = MatchEvent("canMatchKeywordWithAssign", literal,
                               "notIdentChar", m)
    /\ pc' = "returned"
    /\ UNCHANGED <<src, enabled, nesting, cork, inMultiLineComment, line,
                   expect_separator, lineNo, pushes, pops, torn, suppressed,
                   openers, hdr>>

NextMatch == CanMatchCall \/ CanMatchKeywordWithAssignCall

SpecMatch == InitMatch /\ [][NextMatch]_vars

-----------------------------------------------------------------------------
(* parseRubyOperator on its own: one call on a line made of a spelling   *)
(* of the list and what follows it, the cursor on the spelling.          *)

OperatorSpellings == {RUBY_OPERATORS[k] : k \in 1 .. Len(RUBY_OPERATORS)}

\* what precedes the cursor and what follows the spelling
OperatorPads == {<<>>, <<"d", "e", "f", " ">>}
OperatorTails ==
    {<<>>, <<"(", "k", ")">>, <<" ", "x">>, <<"x">>, <<BACKQUOTE>>,
     <<".">>, <<"=">>, <<"@">>, <<"&", "&">>}

\* the name the caller hands over: empty, as readAndEmitTag makes it
OperatorNames == {<<>>}

InitOperator ==
    /\ src = "operator"
    /\ enabled = AllEnabled
    /\ nesting = <<>>
    /\ cork = <<>>
    /\ inMultiLineComment = FALSE
    /\ \E pad \in OperatorPads, S \in OperatorSpellings \cup {<<>>},
          tail \in OperatorTails :
           /\ line = pad \o S \o tail
           /\ cp = Len(pad) + 1
    /\ expect_separator = FALSE
    /\ pc = "call"
    /\ lineNo = 1
    /\ pushes = 0
    /\ pops = 0
    /\ torn = 0
    /\ suppressed = {}
    /\ openers = <<>>
    /\ hdr = NoHeader
    /\ ev = [op |-> "init"]

ParseRubyOperatorCall ==
    /\ pc = "call"
    /\ \E name \in OperatorNames :
       \E m \in {parseRubyOperator(name, line, cp)} :
           /\ cp' = m.cp
           /\ ev' = [op |-> "parseRubyOperator", cpBefore |-> cp,
                     nameBefore |-> name, name |-> m.name, ok |-> m.ok]
    /\ pc' = "returned"
    /\ UNCHANGED <<src, enabled, nesting, cork, inMultiLineComment, line,
                   expect_separator, lineNo, pushes, pops, torn, suppressed,
                   openers, hdr>>

NextOperator == ParseRubyOperatorCall

SpecOperator == InitOperator /\ [][NextOperator]_vars

-----------------------------------------------------------------------------
(* Vocabulary of the properties.                                         *)

MixinKeywords == {"include", "prepend", "extend"}

\* the cork index frame i of stack is bound to, 0 when there is none
BoundEntry(stack, i) ==
    IF i >= 1 /\ i <= Len(stack) THEN stack[i].corkIndex ELSE CORK_NIL

\* the frame a mixin line is meant for: the innermost frame, or the next
\* outer one when the innermost is a singleton method; 0 when that frame is
\* absent, unbound or bound to something else than a class or a module
MixinTarget(stack, c) ==
    LET top == BoundEntry(stack, Len(stack))
        outer == BoundEntry(stack, Len(stack) - 1)
    IN  IF top = CORK_NIL THEN 0
        ELSE IF c[top].kindIndex = K_SINGLETON
          THEN IF outer # CORK_NIL /\ c[outer].kindIndex \in {K_CLASS, K_MODULE}
                 THEN Len(stack) - 1 ELSE 0
        ELSE IF c[top].kindIndex \in {K_CLASS, K_MODULE} THEN Len(stack)
        ELSE 0

\* the last step dispatched an include, prepend or extend line
MixinStep == ev.op = "keyword" /\ ev.kw \in MixinKeywords

-----------------------------------------------------------------------------
(* C1: with all kinds enabled an include/prepend/extend line never       *)
(* aborts the scan, whatever the stack (empty, innermost frame unbound,  *)
(* singleton-method frame over an absent or unbound frame), and when     *)
(* there is no class/module target it records nothing and leaves the     *)
(* stack unchanged.                                                      *)
C1_MixinNeverAborts ==
    (MixinStep /\ enabled = AllEnabled) =>
        /\ pc # "fault"
        /\ MixinTarget(ev.stackBefore, ev.corkBefore) = 0 =>
               nesting = ev.stackBefore /\ cork = ev.corkBefore

-----------------------------------------------------------------------------
(* C2: when a class/module frame that accumulated n >= 1 mixin specs     *)
(* s1..sn is closed (by `end' or at end of input), the mixin field       *)
(* attached to its symbol is exactly s1,s2,...,sn joined by commas, each *)
(* spec once and in accumulation order.                                  *)

RECURSIVE CommaJoined(_)
CommaJoined(specs) ==
    IF Len(specs) = 0 THEN <<>>
    ELSE IF Len(specs) = 1 THEN specs[1]
    ELSE specs[1] \o <<",">> \o CommaJoined(Tail(specs))

\* the frames the last step closed
ClosedFrames ==
    IF ev.op = "sweep" /\ ev.kw = "end"
      THEN {ev.stackBefore[Len(ev.stackBefore)]}
    ELSE IF ev.op = "eof"
      THEN {ev.stackBefore[i] : i \in 1 .. Len(ev.stackBefore)}
    ELSE {}

C2_MixinFieldJoinsAll ==
    \A f \in ClosedFrames :
        (f.corkIndex # CORK_NIL /\ Len(f.mixin) >= 1) =>
            cork[f.corkIndex].mixin = <<CommaJoined(f.mixin)>>

-----------------------------------------------------------------------------
(* C3: a symbol emitted with an unqualified raw name has as its          *)
(* scope-qualifier exactly the dot-joined names of the open frames whose *)
(* bound symbol is present, named and not a placeholder, outermost       *)
(* first; anonymous frames add nothing, and an enclosing symbol adds     *)
(* only its own unqualified name.                                        *)

\* the last step called emitRubyTag and a symbol was made
EmittedStep == ev.op = "keyword" /\ ev.ekind # K_UNDEFINED /\ ev.r # CORK_NIL

Unqualified(name) == \A k \in 1 .. Len(name) : name[k] # SCOPE_SEPARATOR

\* the names of the frames of stack that are bound to a named symbol
RECURSIVE EnclosingNames(_, _)
EnclosingNames(stack, c) ==
    IF stack = <<>> THEN <<>>
    ELSE LET e == Head(stack).corkIndex
             rest == EnclosingNames(Tail(stack), c)
         IN  IF e # CORK_NIL /\ c[e].name # <<>> /\ ~ c[e].placeholder
               THEN <<c[e].name>> \o rest
             ELSE rest

RECURSIVE DotJoined(_)
DotJoined(names) ==
    IF Len(names) = 0 THEN <<>>
    ELSE IF Len(names) = 1 THEN names[1]
    ELSE names[1] \o <<".">> \o DotJoined(Tail(names))

C3_ScopeIsEnclosingNames ==
    (EmittedStep /\ Unqualified(ev.raw)) =>
        /\ cork[ev.r].name = ev.raw
        /\ cork[ev.r].scopeName =
               DotJoined(EnclosingNames(ev.stackBefore, ev.corkBefore))

\* `def bar' inside `class Foo::Bar', itself inside an anonymous frame:
\* the scope is Bar, not Foo.Bar
C3_Witness ==
    /\ EmittedStep /\ Unqualified(ev.raw)
    /\ Len(ev.stackBefore) = 2
    /\ BoundEntry(ev.stackBefore, 1) = CORK_NIL
    /\ BoundEntry(ev.stackBefore, 2) # CORK_NIL
    /\ cork[BoundEntry(ev.stackBefore, 2)].scopeName = <<"F", "o", "o">>
    /\ cork[ev.r].scopeName = <<"B", "a", "r">>

-----------------------------------------------------------------------------
(* C4: the stack depth is never negative and equals frames pushed minus  *)
(* frames popped; an `end' scanned on an empty stack changes nothing; an *)
(* `end' scanned on a non-empty stack removes exactly the innermost      *)
(* frame; at end of input the frames torn down number pushes minus pops  *)
(* and the scan returns.                                                 *)
C4_StackAccounting ==
    /\ pushes - pops >= 0
    /\ pc # "done" => Len(nesting) = pushes - pops
    /\ (ev.op = "sweep" /\ ev.kw = "end0") =>
           (ev.stackBefore = <<>> /\ nesting = <<>> /\ cork = ev.corkBefore)
    /\ (ev.op = "sweep" /\ ev.kw = "end") =>
           /\ ev.stackBefore # <<>>
           /\ nesting = SubSeq(ev.stackBefore, 1, Len(ev.stackBefore) - 1)
    /\ pc = "done" =>
           (torn = pushes - pops /\ torn = Len(ev.stackBefore) /\ nesting = <<>>)

\* end of input reached with frames still open after an `end' popped one
C4_Witness == pc = "done" /\ torn >= 1 /\ pops >= 1

-----------------------------------------------------------------------------
(* C5: emitting a symbol of a disabled kind produces no symbol, returns  *)
(* the `none' reference and leaves the scope stack unchanged, for every  *)
(* kind and stack; emitting an enabled constant produces exactly one     *)
(* constant symbol carrying the current scope path and leaves the stack  *)
(* unchanged.                                                            *)

\* the last step called emitRubyTag
EmitCalled == ev.op = "keyword" /\ ev.ekind # K_UNDEFINED

C5_DisabledKindAndConstant ==
    /\ (EmitCalled /\ ~ enabled[ev.ekind]) =>
           /\ ev.r = CORK_NIL
           /\ cork = ev.corkBefore
           /\ nesting = ev.stackBefore
    /\ (EmitCalled /\ ev.ekind = K_CONST /\ enabled[K_CONST]) =>
           /\ Len(cork) = Len(ev.corkBefore) + 1
           /\ ev.r = Len(cork)
           /\ SubSeq(cork, 1, Len(ev.corkBefore)) = ev.corkBefore
           /\ cork[ev.r].kindIndex = K_CONST
           /\ cork[ev.r].name = ev.raw
           /\ ~ cork[ev.r].placeholder
           /\ cork[ev.r].scopeName =
                  DotJoined(EnclosingNames(ev.stackBefore, ev.corkBefore))
           /\ nesting = ev.stackBefore

\* `VALUE = 1' with the constant kind disabled, inside an open module
C5_Witness ==
    /\ EmitCalled /\ ev.ekind = K_CONST /\ ~ enabled[K_CONST]
    /\ ev.raw = <<"V", "A", "L", "U", "E">>
    /\ Len(nesting) = 1
    /\ cork[BoundEntry(nesting, 1)].kindIndex = K_MODULE

-----------------------------------------------------------------------------
(* C6: with the class (or module) kind disabled, a header                *)
(* `class C < Base' and the include/prepend/extend lines meant for C     *)
(* attach no inheritance parent and no mixin spec to any symbol, and     *)
(* each such step is a no-op that does not fault, whenever the           *)
(* suppressed push leaves the stack empty or the innermost frame without *)
(* a class/module symbol.                                                *)
C6_SuppressedAttachIsNoOp ==
    /\ (~ enabled[K_CLASS] /\ ev.op = "keyword" /\ ev.kw = "class") =>
           /\ ev.r = CORK_NIL
           /\ cork = ev.corkBefore
           /\ nesting = ev.stackBefore
    /\ ~ enabled[K_CLASS] =>
           \A i \in 1 .. Len(cork) : cork[i].inheritance = NoString
    /\ (suppressed \cap {K_CLASS, K_MODULE} # {} /\ MixinStep
           /\ MixinTarget(ev.stackBefore, ev.corkBefore) = 0) =>
           /\ pc # "fault"
           /\ cork = ev.corkBefore
           /\ nesting = ev.stackBefore

-----------------------------------------------------------------------------
(* C7: with all kinds enabled, every line whose leading keyword is       *)
(* recognized as module, class or def pushes exactly one frame: a frame  *)
(* bound to the emitted symbol when a name is read, and otherwise        *)
(* exactly one anonymous frame with no named symbol emitted.             *)

\* the last step dispatched a module, class or def header
HeaderStep == ev.op = "keyword" /\ ev.kw \in {"module", "class", "def"}

\* the entries the last step added to the index
NewEntries == SubSeq(cork, Len(ev.corkBefore) + 1, Len(cork))

Anonymous(f) == f.corkIndex = CORK_NIL \/ cork[f.corkIndex].placeholder

\* one frame was pushed over the frames that were open
OneFramePushed ==
    /\ Len(nesting) = Len(ev.stackBefore) + 1
    /\ SubSeq(nesting, 1, Len(ev.stackBefore)) = ev.stackBefore

\* the frame pushed is bound to the one symbol emitted, or is anonymous
\* and no named symbol was emitted
BoundOrAnonymous ==
    LET top == nesting[Len(nesting)]
    IN  IF ev.ekind # K_UNDEFINED
          THEN /\ Len(NewEntries) = 1
               /\ top.corkIndex = ev.r /\ ev.r = Len(cork)
               /\ ~ cork[ev.r].placeholder /\ cork[ev.r].name # NoString
        ELSE /\ Anonymous(top)
             /\ \A k \in 1 .. Len(NewEntries) : NewEntries[k].placeholder

\* the claim as stated: whatever follows the keyword
C7_EveryHeaderPushesOne ==
    (HeaderStep /\ enabled = AllEnabled) =>
        (OneFramePushed /\ BoundOrAnonymous)

\* as amended: one frame when white space follows the keyword, and no
\* frame and no symbol when the end of the line or another character does
C7_HeaderThenSpacePushesOne ==
    (HeaderStep /\ enabled = AllEnabled) =>
        IF isspace(At(ev.line, ev.kwEnd))
          THEN OneFramePushed /\ BoundOrAnonymous
        ELSE nesting = ev.stackBefore /\ cork = ev.corkBefore

\* `class << self' inside an open class: one placeholder frame, no symbol
C7_Witness ==
    /\ HeaderStep /\ ev.kw = "class" /\ ev.ekind = K_UNDEFINED
    /\ isspace(At(ev.line, ev.kwEnd))
    /\ Len(ev.stackBefore) = 1 /\ Len(nesting) = 2
    /\ BoundEntry(nesting, 2) # CORK_NIL
    /\ cork[BoundEntry(nesting, 2)].placeholder

-----------------------------------------------------------------------------
(* C8: every `def NAME' (no receiver) whose innermost open frame was     *)
(* opened by an anonymous singleton-class header `class << X' is         *)
(* emitted with kind singleton-method, whatever encloses that header;    *)
(* and a `def NAME' whose innermost frame is anything else is emitted    *)
(* with kind method.                                                     *)

\* the text at cursor i is an identifier followed by a dot
HasReceiver(s, i) ==
    LET j == skipWhitespace(s, i)
        k == advanceWhile(s, j, "isIdentChar")
    IN  k > j /\ At(s, k) = "."

\* the last step dispatched a def header and emitted a symbol for it
DefEmitted == ev.op = "keyword" /\ ev.kw = "def" /\ ev.r # CORK_NIL

\* the keyword that opened the innermost frame the last step started from
InnermostOpener ==
    IF ev.openersBefore = <<>> THEN "none"
    ELSE ev.openersBefore[Len(ev.openersBefore)]

\* the claim as stated
C8_SingletonIffSingletonClass ==
    (DefEmitted /\ ~ HasReceiver(ev.line, ev.kwEnd)) =>
        cork[ev.r].kindIndex =
            IF InnermostOpener = "class <<" THEN K_SINGLETON ELSE K_METHOD

\* the innermost frame the last step started from is bound to a
\* placeholder symbol of kind class
UnderClassPlaceholder ==
    LET e == BoundEntry(ev.stackBefore, Len(ev.stackBefore))
    IN  /\ e # CORK_NIL
        /\ ev.corkBefore[e].placeholder
        /\ ev.corkBefore[e].kindIndex = K_CLASS

\* as amended: the placeholder's kind decides, not the header that opened it
C8_SingletonIffClassPlaceholder ==
    (DefEmitted /\ ~ HasReceiver(ev.line, ev.kwEnd)) =>
        cork[ev.r].kindIndex =
            IF UnderClassPlaceholder THEN K_SINGLETON ELSE K_METHOD

\* `def bar' in `class << self' in `class C': a singleton method of C
C8_Witness ==
    /\ DefEmitted /\ ~ HasReceiver(ev.line, ev.kwEnd)
    /\ InnermostOpener = "class <<"
    /\ UnderClassPlaceholder
    /\ cork[ev.r].kindIndex = K_SINGLETON
    /\ cork[ev.r].scopeName = <<"C">>

-----------------------------------------------------------------------------
(* C9: a `def RECEIVER.NAME' header emits exactly one symbol, of kind    *)
(* singleton-method, whose name is NAME alone (receiver and dot          *)
(* discarded, a trailing ?, ! or = kept), and pushes exactly one frame   *)
(* bound to it.                                                          *)

\* the cursors of RECEIVER.NAME in the text at cursor i: the receiver is
\* s[from .. dot-1], the name s[dot+1 .. to-1]
ReceiverAndName(s, i) ==
    LET j == skipWhitespace(s, i)
        k == advanceWhile(s, j, "isIdentChar")
        n == advanceWhile(s, k + 1, "isIdentChar")
    IN  [from |-> j, dot |-> k,
         to |-> IF At(s, n) \in {"?", "!", "="} THEN n + 1 ELSE n]

\* the last step dispatched a def header with a receiver
DefReceiverStep ==
    ev.op = "keyword" /\ ev.kw = "def" /\ HasReceiver(ev.line, ev.kwEnd)

\* one symbol, of kind singleton-method and with the given name, was
\* emitted and one frame bound to it pushed
OneSingletonNamed(name) ==
    /\ Len(NewEntries) = 1
    /\ ev.r = Len(cork)
    /\ cork[ev.r].kindIndex = K_SINGLETON
    /\ ~ cork[ev.r].placeholder
    /\ cork[ev.r].name = name
    /\ OneFramePushed
    /\ nesting[Len(nesting)].corkIndex = ev.r

\* the claim as stated
C9_ReceiverDiscarded ==
    DefReceiverStep =>
        LET rn == ReceiverAndName(ev.line, ev.kwEnd)
        IN  OneSingletonNamed(SubSeq(ev.line, rn.dot + 1, rn.to - 1))

-----------------------------------------------------------------------------
(* C10: a `do' recognized by the sweep opens no frame if and only if a   *)
(* while/until/for header was matched at the start of the same line and  *)
(* no earlier `do' or `;' has been swept on that line since; in every    *)
(* other case (a second `do' on the header line, a `do' after `;', a     *)
(* `do' on a line following the header) it pushes exactly one anonymous  *)
(* frame.  The flag is never armed at the start of a line.               *)

\* the last step was an iteration of the sweep that recognized `do'
DoStep == ev.op = "sweep" /\ ev.kw = "do"

\* a while/until/for header was matched at the start of the line and the
\* sweep had met neither `do' nor `;' on it before the last step
HeaderAwaitsSeparator ==
    /\ ev.hdr.header \in {"while", "until", "for"}
    /\ \A k \in 1 .. Len(ev.hdr.swept) : ev.hdr.swept[k] \notin {"do", "semi"}

C10_DoOpensUnlessSeparator ==
    /\ DoStep =>
           IF HeaderAwaitsSeparator
             THEN nesting = ev.stackBefore /\ cork = ev.corkBefore
           ELSE /\ OneFramePushed
                /\ Anonymous(nesting[Len(nesting)])
                /\ \A k \in 1 .. Len(NewEntries) : NewEntries[k].placeholder
    /\ pc = "block" => ~ expect_separator

\* a `do' alone on the line after a `while' header: it opens a frame over
\* the one the header opened
C10_Witness ==
    /\ DoStep /\ ~ HeaderAwaitsSeparator
    /\ ev.cpBefore = 1
    /\ ev.openersBefore = <<"while">>
    /\ Len(nesting) = 2

-----------------------------------------------------------------------------
(* C11: for a header whose name is written with a qualifier (Foo::Bar,   *)
(* any depth), the emitted symbol's name is the part after the last      *)
(* separator, its scope-qualifier is the dot-joined names of the         *)
(* enclosing named frames followed by the components of the prefix, each *)
(* `::' rendered as one dot, and its scope-parent kind is module         *)
(* whatever the innermost frame; a leading or a trailing `::' adds       *)
(* nothing to the scope.                                                 *)

\* the name as the line spells it: the run of identifier characters and
\* colons that follows the keyword and the whitespace after it
WrittenName ==
    LET a == skipWhitespace(ev.line, ev.kwEnd)
        b == CHOOSE j \in a .. (Len(ev.line) + 1) :
                 /\ ~ (isIdentChar(At(ev.line, j)) \/ At(ev.line, j) = ":")
                 /\ \A k \in a .. (j - 1) :
                        isIdentChar(ev.line[k]) \/ ev.line[k] = ":"
    IN  SubSeq(ev.line, a, b - 1)

\* the components of a written name, the colons between them dropped
RECURSIVE Components(_, _, _)
Components(w, cur, done) ==
    IF w = <<>> THEN (IF cur = <<>> THEN done ELSE Append(done, cur))
    ELSE IF Head(w) = ":"
      THEN Components(Tail(w), <<>>,
                      IF cur = <<>> THEN done ELSE Append(done, cur))
    ELSE Components(Tail(w), Append(cur, Head(w)), done)

\* a module, class or def header whose name is written with a colon
QualifiedStep ==
    /\ EmittedStep
    /\ ev.kw \in {"module", "class", "def"}
    /\ \E k \in 1 .. Len(WrittenName) : WrittenName[k] = ":"

C11_QualifiedNameFoldsPrefix ==
    QualifiedStep =>
        LET parts == Components(WrittenName, <<>>, <<>>)
            n == Len(parts)
            prefix == SubSeq(parts, 1, n - 1)
            path == EnclosingNames(ev.stackBefore, ev.corkBefore)
        IN  /\ cork[ev.r].name = parts[n]
            /\ cork[ev.r].scopeName = DotJoined(path \o prefix)
            /\ n >= 2 => cork[ev.r].scopeKindIndex = K_MODULE

-----------------------------------------------------------------------------
(* C12: canMatch and canMatchKeywordWithAssign leave the cursor where it *)
(* was whenever they return false, at whichever step of the speculative  *)
(* skip they fail; when they return true the cursor is just past the     *)
(* keyword, and the character under it satisfies the boundary predicate. *)

\* the last step was a call of one of the two matchers
MatcherReturned == ev.op \in {"canMatch", "canMatchKeywordWithAssign"}

C12_FailedMatchRestoresCursor ==
    MatcherReturned =>
        IF ev.ok
          THEN /\ cp - Len(ev.literal) >= ev.cpBefore
               /\ SubSeq(line, cp - Len(ev.literal), cp - 1) = ev.literal
               /\ Pred(ev.end_check, At(line, cp))
        ELSE cp = ev.cpBefore

\* `x = ifx': the sigil, identifier, whitespace, operator and whitespace
\* skips succeed and the keyword is then refused at its boundary
C12_Witness ==
    /\ ev.op = "canMatchKeywordWithAssign" /\ ~ ev.ok
    /\ line = L_x_eq_ifx /\ ev.literal = S_if /\ ev.cpBefore = 1

-----------------------------------------------------------------------------
(* C13: for every spelling S of the operator list and every following    *)
(* character c that is not an operator character (the end of the line    *)
(* included), parseRubyOperator on S followed by c yields exactly S and  *)
(* leaves the cursor on c; S is the only spelling canMatch accepts       *)
(* there, so the order of the list does not matter and a spelling that   *)
(* is a prefix of another is never returned for the longer one; on       *)
(* failure the name and the cursor are unchanged.                        *)

OperatorReturned == ev.op = "parseRubyOperator"

\* the spellings written at position i of s and followed by a character
\* that is not an operator character
SpellingsAt(s, i) ==
    {S \in OperatorSpellings :
        /\ i + Len(S) - 1 <= Len(s)
        /\ SubSeq(s, i, i + Len(S) - 1) = S
        /\ notOperatorChar(At(s, i + Len(S)))}

C13_OperatorReadWhole ==
    OperatorReturned =>
        /\ \A S \in SpellingsAt(line, ev.cpBefore) :
               /\ ev.ok
               /\ ev.name = ev.nameBefore \o S
               /\ cp = ev.cpBefore + Len(S)
               /\ {k \in 1 .. Len(RUBY_OPERATORS) :
                      canMatch(line, ev.cpBefore, RUBY_OPERATORS[k],
                               "notOperatorChar").ok}
                    = {k \in 1 .. Len(RUBY_OPERATORS) : RUBY_OPERATORS[k] = S}
        /\ ~ ev.ok => ev.name = ev.nameBefore /\ cp = ev.cpBefore

\* `def []=(k)': the longer spelling is read although `[]' comes first in
\* the list
C13_Witness ==
    /\ OperatorReturned /\ ev.ok
    /\ line = <<"d", "e", "f", " ", "[", "]", "=", "(", "k", ")">>
    /\ ev.name = <<"[", "]", "=">>
    /\ cp = 8

-----------------------------------------------------------------------------
(* C14: for a header `class NAME < PARENT' with the class kind enabled,  *)
(* PARENT is attached as inheritance parent to the symbol emitted for    *)
(* NAME on that line and to no other symbol, the class frame having been *)
(* pushed; for `class << X', or when no identifier follows the `<', no   *)
(* inheritance parent is attached to any symbol.                         *)

\* the run of identifier characters and colons written at position a
NameRun(s, a) ==
    LET b == CHOOSE j \in a .. (Len(s) + 1) :
                 /\ ~ (isIdentChar(At(s, j)) \/ At(s, j) = ":")
                 /\ \A k \in a .. (j - 1) : isIdentChar(s[k]) \/ s[k] = ":"
    IN  [text |-> SubSeq(s, a, b - 1), end |-> b]

\* a name as the index holds it: a dot for every run of colons that a
\* component follows
RECURSIVE Rendered(_, _)
Rendered(w, sep) ==
    IF w = <<>> THEN <<>>
    ELSE IF Head(w) = ":" THEN Rendered(Tail(w), TRUE)
    ELSE (IF sep THEN <<".", Head(w)>> ELSE <<Head(w)>>)
             \o Rendered(Tail(w), FALSE)

\* the PARENT of a header `class NAME < PARENT', empty when the line is
\* not of that form
WrittenParent ==
    LET name == NameRun(ev.line, skipWhitespace(ev.line, ev.kwEnd))
        lt == skipWhitespace(ev.line, name.end)
    IN  IF /\ isspace(At(ev.line, ev.kwEnd))
           /\ Rendered(name.text, FALSE) # <<>>
           /\ At(ev.line, lt) = "<" /\ At(ev.line, lt + 1) # "<"
          THEN Rendered(NameRun(ev.line,
                                skipWhitespace(ev.line, lt + 1)).text, FALSE)
        ELSE <<>>

ClassStep == ev.op = "keyword" /\ ev.kw = "class" /\ enabled[K_CLASS]

\* the inheritance parents of the symbols queued before the last step
\* are what they were
OlderParentsKept ==
    \A k \in 1 .. Len(ev.corkBefore) :
        cork[k].inheritance = ev.corkBefore[k].inheritance

C14_ParentOnItsClass ==
    ClassStep =>
        /\ OlderParentsKept
        /\ IF WrittenParent # <<>>
             THEN /\ ev.r # CORK_NIL
                  /\ Len(cork) = Len(ev.corkBefore) + 1
                  /\ ev.r = Len(cork)
                  /\ cork[ev.r].kindIndex = K_CLASS
                  /\ cork[ev.r].inheritance = WrittenParent
                  /\ Len(nesting) = Len(ev.stackBefore) + 1
                  /\ nesting[Len(nesting)].corkIndex = ev.r
           ELSE \A k \in (Len(ev.corkBefore) + 1) .. Len(cork) :
                    cork[k].inheritance = NoString

\* `class C < Base' inside module M: Base goes to C, nothing to M
C14_Witness ==
    /\ ClassStep
    /\ ev.line = L_class_C_Base
    /\ Len(ev.corkBefore) = 1 /\ ev.corkBefore[1].kindIndex = K_MODULE
    /\ cork[2].inheritance = <<"B", "a", "s", "e">>
    /\ cork[1].inheritance = NoString

-----------------------------------------------------------------------------
(* C15: per line the leading-keyword dispatch performs at most one       *)
(* action: on a line on which for/until/while/case/if/unless matched and *)
(* pushed an anonymous frame, the dispatch emits no symbol and records   *)
(* no mixin (`if X = y' and `while FOO == 1' push one anonymous frame    *)
(* and emit no constant).                                                *)

\* the last step was the module/class/mixin/def/constant dispatch of a
\* line on which a block keyword had matched
DispatchAfterBlockKeyword ==
    /\ ev.op = "keyword"
    /\ ev.hdr.header \in {"for", "until", "while", "case", "if", "unless"}

C15_OneActionPerLine ==
    DispatchAfterBlockKeyword =>
        /\ cork = ev.corkBefore
        /\ nesting = ev.stackBefore

-----------------------------------------------------------------------------
(* C16: a mixin field is only ever attached to a named (non-placeholder) *)
(* symbol of kind class or module: an include/prepend/extend line        *)
(* scanned while the innermost frame is an anonymous scope nested in a   *)
(* class never records its spec on that frame nor attaches it to the     *)
(* frame's placeholder, and a line scanned inside a method frame         *)
(* attaches nothing to the method.                                       *)

\* entry k of the index is a named class or module
NamedClassOrModule(k) ==
    /\ ~ cork[k].placeholder
    /\ cork[k].name # <<>>
    /\ cork[k].kindIndex \in {K_CLASS, K_MODULE}

C16_MixinOnlyOnNamedScopes ==
    /\ \A k \in 1 .. Len(cork) :
           cork[k].mixin # <<>> => NamedClassOrModule(k)
    /\ \A i \in 1 .. Len(nesting) :
           (nesting[i].mixin # <<>> /\ nesting[i].corkIndex # CORK_NIL) =>
               NamedClassOrModule(nesting[i].corkIndex)

-----------------------------------------------------------------------------
(* C17: from a line that starts in column 0 with `=begin' followed by    *)
(* whitespace or the end of the line, up to and including the next line  *)
(* that starts in column 0 with `=end' followed by whitespace or the end *)
(* of the line, no symbol is emitted, no frame is pushed or popped and   *)
(* no mixin is recorded, whatever the lines hold; scanning resumes on    *)
(* the line after `=end', and the in-comment state is false at the start *)
(* of every file.                                                        *)

\* line l starts in column 0 with word, whitespace or nothing after it
StartsFence(l, word) ==
    /\ Len(l) >= Len(word)
    /\ SubSeq(l, 1, Len(word)) = word
    /\ Len(l) = Len(word) \/ isspace(l[Len(word) + 1])

\* the last step read a line
LineRead == ev.op = "line"

\* the line just read lies in a comment: it opens one, closes one, or
\* follows an opening fence that no closing fence has followed
InsideComment ==
    \/ StartsFence(ev.line, S_eq_begin)
    \/ StartsFence(ev.line, S_eq_end)
    \/ ev.comment

C17_CommentLinesSkipped ==
    /\ lineNo = 0 => ~ inMultiLineComment
    /\ LineRead =>
           /\ inMultiLineComment =
                  IF StartsFence(ev.line, S_eq_begin) THEN TRUE
                  ELSE IF StartsFence(ev.line, S_eq_end) THEN FALSE
                  ELSE ev.comment
           /\ IF InsideComment
                THEN /\ pc = "read"
                     /\ nesting = ev.stackBefore
                     /\ cork = ev.corkBefore
              ELSE pc = "block" /\ line = ev.line

\* `class C' read after an opening fence that nothing has closed: the
\* line is dropped and the next one is asked for
C17_Witness ==
    /\ LineRead /\ ev.comment
    /\ ev.line = L_class_C
    /\ inMultiLineComment
    /\ pc = "read"
    /\ cork = <<>> /\ nesting = <<>>

-----------------------------------------------------------------------------
(* C18: in every reachable state the frames without a bound symbol form  *)
(* a bottom segment of the stack (every frame above a bound frame is     *)
(* bound) and each placeholder carries the kind of the nearest named     *)
(* frame beneath it; so whenever the scope-qualifier of an emitted       *)
(* symbol is non-empty its scope-parent kind is one of class, method,    *)
(* module, singleton method (the assertion of emitRubyTag holds), and    *)
(* for an unqualified name it is the kind of the symbol named last in    *)
(* the scope path.                                                       *)

\* frame i is bound to a placeholder
PlaceholderFrame(stack, c, i) ==
    stack[i].corkIndex # CORK_NIL /\ c[stack[i].corkIndex].placeholder

\* the innermost frame at or below i that is bound to a named symbol, 0
\* when there is none
RECURSIVE NearestNamed(_, _, _)
NearestNamed(stack, c, i) ==
    IF i = 0 THEN 0
    ELSE IF stack[i].corkIndex # CORK_NIL /\ ~ PlaceholderFrame(stack, c, i)
      THEN i
    ELSE NearestNamed(stack, c, i - 1)

ScopeKinds == {K_CLASS, K_METHOD, K_MODULE, K_SINGLETON}

C18_UnboundFramesAtBottom ==
    /\ \A i \in 1 .. (Len(nesting) - 1) :
           nesting[i].corkIndex # CORK_NIL =>
               nesting[i + 1].corkIndex # CORK_NIL
    /\ \A i \in 1 .. Len(nesting) :
           PlaceholderFrame(nesting, cork, i) =>
               /\ NearestNamed(nesting, cork, i) # 0
               /\ cork[nesting[i].corkIndex].kindIndex =
                      cork[nesting[NearestNamed(nesting, cork, i)].corkIndex]
                          .kindIndex
    /\ \A i \in 1 .. Len(nesting) :
           nesting[i].corkIndex # CORK_NIL =>
               cork[nesting[i].corkIndex].kindIndex \in ScopeKinds
    /\ (EmittedStep /\ cork[ev.r].scopeName # NoString) =>
           /\ cork[ev.r].scopeKindIndex \in ScopeKinds
           /\ Unqualified(ev.raw) =>
                  LET n == NearestNamed(ev.stackBefore, ev.corkBefore,
                                        Len(ev.stackBefore))
                  IN  /\ n # 0
                      /\ cork[ev.r].scopeKindIndex =
                             ev.corkBefore[ev.stackBefore[n].corkIndex]
                                 .kindIndex

\* `def bar' under `class << self' under `class C': the placeholder above
\* C hands the kind class to the scope-parent kind of bar
C18_Witness ==
    /\ EmittedStep /\ Unqualified(ev.raw)
    /\ Len(ev.stackBefore) = 2
    /\ PlaceholderFrame(ev.stackBefore, ev.corkBefore, 2)
    /\ ~ PlaceholderFrame(ev.stackBefore, ev.corkBefore, 1)
    /\ ev.stackBefore[1].corkIndex # CORK_NIL
    /\ cork[ev.r].scopeKindIndex = K_CLASS
    /\ cork[ev.r].scopeName = <<"C">>

-----------------------------------------------------------------------------
(* C19: the trailing sweep terminates on every line: each iteration      *)
(* either stops the sweep (at `#') or moves the cursor forward by at     *)
(* least one character without passing the end of the line, also when    *)
(* `end' is matched on an empty stack, when a double-quoted string has   *)
(* no closing quote and when the line ends right after a keyword; so     *)
(* every sweep is left and a finite input is scanned to completion.      *)

\* the last step was an iteration of the sweep, or the test that ends it
SweepIterated == ev.op = "sweep"

SweepAdvances ==
    SweepIterated =>
        IF ev.kw \in {"eol", "hash"} THEN pc = "read"
        ELSE /\ pc = "sweep"
             /\ line = ev.line
             /\ cp > ev.cpBefore
             /\ cp <= Len(line) + 1

C19_SweepTerminates ==
    /\ [] SweepAdvances
    /\ (pc = "sweep") ~> (pc = "read")
    /\ <> (pc = "done")

\* `end' at the end of a line, matched on an empty stack: the cursor is
\* left on the end of the line
C19_Witness ==
    /\ SweepIterated /\ ev.kw = "end0"
    /\ ev.stackBefore = <<>>
    /\ ev.line = L_end
    /\ cp = Len(line) + 1

=============================================================================
